---- MODULE Spec2Model ----
(***************************************************************************)
(* Political Blog, local-storage variant (src/script.js).                  *)
(*                                                                         *)
(* One browser tab.  A page session is one document: the script constructs *)
(* `state`, DOMContentLoaded runs loadData and then initRouter, and the    *)
(* page's event handlers (form submit, FileReader onload, card click) run  *)
(* until the document is unloaded by a navigation.  localStorage survives  *)
(* navigations, `state` and the DOM do not.                                *)
(*                                                                         *)
(* Strings that the code takes apart (category text: trim; description:    *)
(* split on newline; ids: Number -> decimal string) are sequences of       *)
(* one-character strings (the two seed descriptions, which hold no newline,*)
(* are written as one token each).  A date string "YYYY-MM-DD" is          *)
(* <<Y, M, D>> and the empty date input is <<>>.                           *)
(***************************************************************************)
EXTENDS Integers, Sequences, FiniteSets, TLC

VARIABLES
    storage,     \* localStorage.getItem(STORAGE_KEY): null or <<the JSON document>>
    blogs,       \* state.blogs
    categories,  \* state.categories
    page,        \* last segment of window.location.pathname
    search,      \* the id parameter of window.location.search (null when none)
    pc,          \* "start": script ran; "loaded": loadData done; "ready": initRouter done
    grid,        \* children of #blogGrid
    container,   \* content of #blogContainer
    options,     \* option values of the #category select
    readers,     \* FileReaders of submit handlers whose onload has not fired yet
    href,        \* the URL last assigned to window.location.href, or null
    alerts,      \* the messages this document has shown with alert()
    creates,     \* history: the saveNewBlog calls of this document
    prev,        \* history: what the previous document left behind
    text,        \* formatContent's argument   (specification SpecFC)
    markup       \* formatContent's result     (specification SpecFC)

appVars == <<storage, blogs, categories, page, search, pc, grid, container,
             options, readers, href, alerts, creates, prev>>
fcVars == <<text, markup>>
vars == <<storage, blogs, categories, page, search, pc, grid, container,
          options, readers, href, alerts, creates, prev, text, markup>>

\* null, and every value the script only tests for truth (a missing item, an
\* empty string), is the empty sequence
null == <<>>

(***************************************************************************)
(* Bounds and input sets.                                                  *)
(***************************************************************************)
\* the collection is not grown beyond MaxBlogs posts (seeds included)
MaxBlogs == 4
\* formatContent is applied to every text of at most MaxTextLen characters
MaxTextLen == 4

\* the readings Date.now() can give; 1 is also the first seed post's id
ClockReadings == {1, 2}

\* outcomes of localStorage.setItem
WriteOutcomes == {"ok", "QuotaExceededError", "Error"}

Chars == {"a", "b", "\n"}

\* The form as the user can have filled it in when submitting: title,
\* description, date, the text of the new-category field, which option of the
\* category select is chosen (the first one or the last one) and the image
\* file.  Between them: a date equal to a seed's, a later one, an earlier
\* one and no date; a category typed with and without surrounding blanks, a
\* blank-only field, a category differing from a default one only in case;
\* with and without an image file.
Forms ==
    { [title |-> "A", description |-> <<"a">>, date |-> <<2024, 1, 20>>,
       newCategory |-> <<>>, lastOption |-> FALSE, file |-> null],
      [title |-> "B", description |-> <<"a", "\n", "b">>, date |-> <<2025, 3, 1>>,
       newCategory |-> <<" ", "T", " ">>, lastOption |-> FALSE, file |-> <<"img">>],
      [title |-> "A", description |-> <<>>, date |-> <<>>,
       newCategory |-> <<"p", "o", "l", "i", "t", "i", "c", "s">>,
       lastOption |-> FALSE, file |-> null],
      [title |-> "B", description |-> <<"a">>, date |-> <<2023, 2, 28>>,
       newCategory |-> <<" ">>, lastOption |-> TRUE, file |-> null],
      [title |-> "A", description |-> <<"b">>, date |-> <<2024, 1, 20>>,
       newCategory |-> <<"T">>, lastOption |-> FALSE, file |-> <<"img">>] }

\* the ids a user can put into the address of the Detail page by hand
TypedIds == { null, <<"1">>, <<"2">>, <<"9">> }

(***************************************************************************)
(* Constants of the script.                                                *)
(***************************************************************************)
Politics == <<"P", "o", "l", "i", "t", "i", "c", "s">>
Policy == <<"P", "o", "l", "i", "c", "y">>
Election == <<"E", "l", "e", "c", "t", "i", "o", "n">>
Opinion == <<"O", "p", "i", "n", "i", "o", "n">>

DEFAULT_CATEGORIES == <<Politics, Policy, Election, Opinion>>

SEED_DATA ==
    << [id |-> <<"1">>,
        title |-> "The Future of Digital Democracy",
        description |-> <<"As technology evolves, so does the way we participate in our democracy. Digital voting, online town halls, and AI-driven policy analysis are becoming realities. This post explores the potential benefits and risks of this digital transformation in the political landscape.">>,
        date |-> <<2023, 10, 15>>,
        category |-> Politics,
        image |-> null],
       [id |-> <<"1", "7", "2", "8", "2", "7", "1", "9", "2", "8", "1">>,
        title |-> "Policy Changes in 2024",
        description |-> <<"A deep dive into the new economic policies proposed for the upcoming fiscal year. We analyze the impact on small businesses, international trade relationships, and the average consumer. What do these changes really mean for the economy?">>,
        date |-> <<2024, 1, 20>>,
        category |-> Policy,
        image |-> null] >>

STORAGE_KEY == "politics_blog_data"

IndexPage == "index.html"
AddBlogPage == "add-blog.html"
BlogPage == "blog.html"
Pages == {IndexPage, AddBlogPage, BlogPage}

QuotaMessage == "Storage limit exceeded! Image might be too large. Try a smaller image."
ErrorMessage == "Error saving data. See console for details."

(***************************************************************************)
(* Pure helpers of the JavaScript run time, as the script uses them.       *)
(***************************************************************************)
Digit(n) == CASE n = 0 -> "0" [] n = 1 -> "1" [] n = 2 -> "2" [] n = 3 -> "3"
              [] n = 4 -> "4" [] n = 5 -> "5" [] n = 6 -> "6" [] n = 7 -> "7"
              [] n = 8 -> "8" [] n = 9 -> "9"

\* Number.prototype.toString of a non-negative integer: its decimal digits
RECURSIVE toString(_)
toString(n) == IF n < 10 THEN <<Digit(n)>> ELSE toString(n \div 10) \o <<Digit(n % 10)>>

\* Array.prototype.includes
includes(arr, x) == \E i \in 1..Len(arr) : arr[i] = x

\* mutant of push: the element is put in front (unshift)
unshift(arr, x) == <<x>> \o arr

\* Array.prototype.push, as the array afterwards
push(arr, x) == Append(arr, x)

\* String.prototype.trim: white space is removed from both ends
RECURSIVE trimStart(_)
trimStart(s) == IF s # <<>> /\ Head(s) = " " THEN trimStart(Tail(s)) ELSE s

RECURSIVE trimEnd(_)
trimEnd(s) == IF s # <<>> /\ s[Len(s)] = " " THEN trimEnd(SubSeq(s, 1, Len(s) - 1)) ELSE s

trim(s) == trimEnd(trimStart(s))

\* JSON.stringify(state): the document lists blogs and categories, each blog
\* as its six members in the order the object literal gives them
stringifyBlog(b) == <<b.id, b.title, b.description, b.date, b.category, b.image>>

stringify(st) ==
    [blogs |-> [i \in 1..Len(st.blogs) |-> stringifyBlog(st.blogs[i])],
     categories |-> st.categories]

\* JSON.parse of such a document
parseBlog(t) ==
    [id |-> t[1], title |-> t[2], description |-> t[3], date |-> t[4],
     category |-> t[5], image |-> t[6]]

parse(doc) ==
    [blogs |-> [i \in 1..Len(doc.blogs) |-> parseBlog(doc.blogs[i])],
     categories |-> doc.categories]

\* FileReader.readAsDataURL: the file's content as a data URL
readAsDataURL(file) == <<"data:", file>>

\* a number is <<n>>, NaN is <<>>
NaN == <<>>

\* days from 1970-01-01 to the civil date y-m-d (proleptic Gregorian)
DaysFromCivil(y, m, d) ==
    LET yy == IF m <= 2 THEN y - 1 ELSE y
        era == yy \div 400
        yoe == yy - era * 400
        mp == IF m > 2 THEN m - 3 ELSE m + 9
        doy == (153 * mp + 2) \div 5 + d - 1
        doe == yoe * 365 + yoe \div 4 - yoe \div 100 + doy
    IN  era * 146097 + doe - 719468

\* new Date(dateString) as a number: the time value of UTC midnight of a
\* "YYYY-MM-DD" string, counted in days (the factor 86400000 is left out, it
\* changes no sign and no comparison), NaN for a string that is no date
DateValue(dateString) ==
    IF Len(dateString) = 3
    THEN <<DaysFromCivil(dateString[1], dateString[2], dateString[3])>>
    ELSE NaN

\* a - b on numbers
Minus(a, b) == IF a = NaN \/ b = NaN THEN NaN ELSE <<a[1] - b[1]>>

\* mutant of compareDates: the operands swapped, oldest first
compareDatesAscending(a, b) == Minus(DateValue(a.date), DateValue(b.date))

\* the comparator of renderHomePage: new Date(b.date) - new Date(a.date)
compareDates(a, b) == Minus(DateValue(b.date), DateValue(a.date))

\* SortCompare of Array.prototype.sort: a NaN from the comparator counts as +0
SortCompare(a, b) == LET v == compareDates(a, b) IN IF v = NaN THEN 0 ELSE v[1]

\* Array.prototype.sort(comparefn).  With a consistent comparator the result
\* is the one stable order.  The comparator of renderHomePage is not
\* consistent once a date is invalid (NaN counts as equal to everything), and
\* the order is then implementation-defined: the two algorithms browsers run
\* on arrays this short are both modelled, and sort(arr) is the set of their
\* results.  `arr` is the array; a result is the sequence of positions of
\* arr in sorted order (the references the sorted copy holds).

\* insertion sort (SpiderMonkey below 24 elements): an element moves in front
\* of the elements that compare above it, from the right, until one does not
RECURSIVE insertSorted(_, _, _)
insertSorted(arr, sorted, i) ==
    IF sorted # <<>> /\ SortCompare(arr[sorted[Len(sorted)]], arr[i]) > 0
    THEN Append(insertSorted(arr, SubSeq(sorted, 1, Len(sorted) - 1), i),
                sorted[Len(sorted)])
    ELSE Append(sorted, i)

RECURSIVE sortPrefix(_, _)
sortPrefix(arr, n) ==
    IF n = 0 THEN <<>> ELSE insertSorted(arr, sortPrefix(arr, n - 1), n)

insertionSort(arr) == sortPrefix(arr, Len(arr))

\* TimSort (V8 below 64 elements): the first run is found, reversed if it
\* descends strictly, and the rest is inserted by binary search
RECURSIVE countRun(_, _, _)
countRun(arr, descending, n) ==
    IF n < Len(arr) /\ (descending <=> SortCompare(arr[n + 1], arr[n]) < 0)
    THEN countRun(arr, descending, n + 1)
    ELSE n

reverse(s) == [k \in 1..Len(s) |-> s[Len(s) + 1 - k]]

firstRun(arr) ==
    IF Len(arr) < 2
    THEN [k \in 1..Len(arr) |-> k]
    ELSE LET descending == SortCompare(arr[2], arr[1]) < 0
             run == [k \in 1..countRun(arr, descending, 2) |-> k]
         IN  IF descending THEN reverse(run) ELSE run

RECURSIVE binarySearch(_, _, _, _, _)
binarySearch(arr, sorted, pivot, left, right) ==
    IF left < right
    THEN LET mid == left + (right - left) \div 2
         IN  IF SortCompare(arr[pivot], arr[sorted[mid + 1]]) < 0
             THEN binarySearch(arr, sorted, pivot, left, mid)
             ELSE binarySearch(arr, sorted, pivot, mid + 1, right)
    ELSE left

RECURSIVE binaryInsertionSort(_, _, _)
binaryInsertionSort(arr, sorted, start) ==
    IF start > Len(arr)
    THEN sorted
    ELSE LET left == binarySearch(arr, sorted, start, 0, Len(sorted))
         IN  binaryInsertionSort(arr,
                 SubSeq(sorted, 1, left) \o <<start>>
                     \o SubSeq(sorted, left + 1, Len(sorted)),
                 start + 1)

timSort(arr) == binaryInsertionSort(arr, firstRun(arr), Len(firstRun(arr)) + 1)

sort(arr) == { insertionSort(arr), timSort(arr) }

\* String.prototype.split('\n'): the pieces between newlines; a text with no
\* newline (the empty text too) is one piece
RECURSIVE split(_)
split(s) ==
    IF \E i \in 1..Len(s) : s[i] = "\n"
    THEN LET i == CHOOSE k \in 1..Len(s) :
                      s[k] = "\n" /\ \A j \in 1..(k - 1) : s[j] # "\n"
         IN  <<SubSeq(s, 1, i - 1)>> \o split(SubSeq(s, i + 1, Len(s)))
    ELSE <<s>>

\* Array.prototype.join(''): the pieces one after the other
RECURSIVE join(_)
join(parts) == IF parts = <<>> THEN <<>> ELSE Head(parts) \o join(Tail(parts))

\* formatContent: every piece wrapped in a paragraph element
formatContent(t) ==
    join([i \in 1..Len(split(t)) |-> <<"<p>">> \o split(t)[i] \o <<"</p>">>])

\* createBlogCard: the card keeps the blog object (its click handler reads
\* blog.id) and shows image or placeholder, category, title and excerpt
CardPlaceholder == <<"https://placehold.co/600x400/1a3c6e/ffffff?text=Political+Blog">>

createBlogCard(arr, i) ==
    [blog |-> i,
     img |-> IF arr[i].image # null THEN arr[i].image ELSE CardPlaceholder,
     title |-> arr[i].title,
     category |-> arr[i].category,
     excerpt |-> arr[i].description]

EmptyMessage == "No blogs found. Start by adding one!"

\* Array.prototype.find with b => b.id === blogId: the position of the first
\* match, 0 when there is none
find(arr, blogId) ==
    IF \E i \in 1..Len(arr) : arr[i].id = blogId
    THEN CHOOSE i \in 1..Len(arr) :
             arr[i].id = blogId /\ \A j \in 1..(i - 1) : arr[j].id # blogId
    ELSE 0

NotFoundMessage == "Blog not found"
BlogPlaceholder == <<"https://placehold.co/800x400/1a3c6e/ffffff?text=Political+Blog">>

\* the article renderSingleBlogPage writes for a blog
Article(b) ==
    [docTitle |-> <<b.title, " - Political Blog">>,
     badge |-> b.category,
     time |-> b.date,
     h1 |-> b.title,
     img |-> IF b.image # null THEN b.image ELSE BlogPlaceholder,
     content |-> formatContent(b.description)]

(***************************************************************************)
(* The state machine.                                                      *)
(***************************************************************************)
NoPrev == [some |-> FALSE]

\* const state = { blogs: [], categories: [] } and an untouched document
Constructed ==
    /\ blogs = <<>>
    /\ categories = <<>>
    /\ grid = <<>>
    /\ container = [kind |-> "static"]
    /\ options = <<>>
    /\ readers = <<>>
    /\ href = null
    /\ alerts = <<>>

InitApp ==
    /\ storage = null
    /\ page \in Pages
    /\ search = null
    /\ pc = "start"
    /\ Constructed
    /\ creates = <<>>
    /\ prev = NoPrev

Init == InitApp /\ text = <<>> /\ markup = <<>>

\* mutant of setItem: the item is replaced although the call throws
setItemDespiteError(old, value, w) == <<value>>

\* localStorage.setItem(STORAGE_KEY, value): the item afterwards
setItem(old, value, w) == IF w = "ok" THEN <<value>> ELSE old

\* the alert of saveData's catch block
catchAlert(w) == IF w = "QuotaExceededError" THEN QuotaMessage ELSE ErrorMessage

\* saveData on state st, setItem ending as w
saveData(st, w) ==
    /\ storage' = setItem(storage, stringify(st), w)
    /\ alerts' = IF w = "ok" THEN alerts ELSE Append(alerts, catchAlert(w))

\* mutant of loadedState: no seed posts when the item is missing
loadedStateUnseeded(rawData) ==
    IF rawData # null
    THEN parse(rawData[1])
    ELSE [blogs |-> <<>>, categories |-> DEFAULT_CATEGORIES]

\* What loadData leaves in state.  The document always has both members, so
\* the `|| []` and `|| DEFAULT_CATEGORIES` defaults never apply.  state.blogs
\* is the SEED_DATA array itself after seeding; loadData runs once per
\* document, so a later push into it is never read back as seed data.
loadedState(rawData) ==
    IF rawData # null
    THEN parse(rawData[1])
    ELSE [blogs |-> SEED_DATA, categories |-> DEFAULT_CATEGORIES]

\* DOMContentLoaded, first statement
loadData ==
    /\ pc = "start"
    /\ blogs' = loadedState(storage).blogs
    /\ categories' = loadedState(storage).categories
    /\ IF storage # null
       THEN UNCHANGED <<storage, alerts>>
       ELSE \E w \in WriteOutcomes : saveData(loadedState(storage), w)
    /\ pc' = "loaded"
    /\ UNCHANGED <<page, search, grid, container, options, readers, href,
                   creates, prev, text, markup>>

\* the children renderHomePage puts into the grid for the sorted copy
homePageGrid(arr, sortedBlogs) ==
    IF Len(sortedBlogs) = 0
    THEN << [p |-> EmptyMessage] >>
    ELSE [k \in 1..Len(sortedBlogs) |-> createBlogCard(arr, sortedBlogs[k])]

\* initRouter on the Listing page
renderHomePage ==
    /\ pc = "loaded"
    /\ page = IndexPage
    /\ \E sortedBlogs \in sort(blogs) : grid' = homePageGrid(blogs, sortedBlogs)
    /\ pc' = "ready"
    /\ UNCHANGED <<storage, blogs, categories, page, search, container, options,
                   readers, href, alerts, creates, prev, text, markup>>

\* initRouter on the Create page: renderCategoryOptions, handlers registered
initAddBlogPage ==
    /\ pc = "loaded"
    /\ page = AddBlogPage
    /\ options' = categories
    /\ pc' = "ready"
    /\ prev' = NoPrev
    /\ UNCHANGED <<storage, blogs, categories, page, search, grid, container,
                   readers, href, alerts, creates, text, markup>>

\* what renderSingleBlogPage leaves in the container
singleBlogContainer(arr, blogId) ==
    IF blogId = null
    THEN [kind |-> "static"]
    ELSE IF find(arr, blogId) = 0
         THEN [kind |-> "notfound", h2 |-> NotFoundMessage]
         ELSE [kind |-> "article", article |-> Article(arr[find(arr, blogId)])]

\* initRouter on the Detail page
renderSingleBlogPage ==
    /\ pc = "loaded"
    /\ page = BlogPage
    /\ container' = singleBlogContainer(blogs, search)
    /\ pc' = "ready"
    /\ prev' = NoPrev
    /\ UNCHANGED <<storage, blogs, categories, page, search, grid, options,
                   readers, href, alerts, creates, text, markup>>

\* mutant of addCategory: the category is pushed without the includes test
addCategoryAlways(cats, category) == push(cats, category)

\* saveNewBlog's "Add category if new"
addCategory(cats, category) ==
    IF ~includes(cats, category) THEN push(cats, category) ELSE cats

\* the object literal of saveNewBlog
newBlog(title, description, date, category, imageBase64, now) ==
    [id |-> toString(now), title |-> title, description |-> description,
     date |-> date, category |-> category, image |-> imageBase64]

\* saveNewBlog, called from handler `by`, with Date.now() = now and setItem
\* ending as w
saveNewBlog(title, description, date, category, imageBase64, now, w, by) ==
    LET nb == newBlog(title, description, date, category, imageBase64, now)
        st == [blogs |-> push(blogs, nb),
               categories |-> addCategory(categories, category)]
    IN  /\ blogs' = st.blogs
        /\ categories' = st.categories
        /\ saveData(st, w)
        /\ href' = <<IndexPage>>
        /\ creates' = Append(creates, [idx |-> Len(st.blogs), blog |-> nb,
                                       write |-> w, by |-> by])

\* the category the submit handler reads from the form
formCategory(newCategoryValue, selectValue) ==
    IF trim(newCategoryValue) # <<>> THEN trim(newCategoryValue) ELSE selectValue

\* The form's submit handler.  Assigning window.location.href only starts a
\* navigation: until the document is unloaded (Navigate) its handlers still
\* run, so a submit or a pending onload can follow a redirect.
Submit ==
    /\ pc = "ready"
    /\ page = AddBlogPage
    /\ Len(blogs) + Len(readers) < MaxBlogs
    /\ \E f \in Forms :
         LET selectValue == IF f.lastOption THEN options[Len(options)] ELSE options[1]
             category == formCategory(f.newCategory, selectValue)
         IN  IF f.file # null
             THEN /\ readers' = Append(readers,
                                   [title |-> f.title, description |-> f.description,
                                    date |-> f.date, category |-> category,
                                    file |-> f.file])
                  /\ UNCHANGED <<storage, blogs, categories, href, alerts, creates>>
             ELSE /\ \E now \in ClockReadings, w \in WriteOutcomes :
                        saveNewBlog(f.title, f.description, f.date, category, null,
                                    now, w, "submit")
                  /\ UNCHANGED readers
    /\ UNCHANGED <<page, search, pc, grid, container, options, prev, text, markup>>

\* reader.onload of a submit handler's FileReader
ReaderOnload ==
    /\ pc = "ready"
    /\ page = AddBlogPage
    /\ \E i \in 1..Len(readers), now \in ClockReadings, w \in WriteOutcomes :
         /\ saveNewBlog(readers[i].title, readers[i].description, readers[i].date,
                        readers[i].category, readAsDataURL(readers[i].file),
                        now, w, "onload")
         /\ readers' = SubSeq(readers, 1, i - 1) \o SubSeq(readers, i + 1, Len(readers))
    /\ UNCHANGED <<page, search, pc, grid, container, options, prev, text, markup>>

\* article.onclick of a card
CardClick ==
    /\ pc = "ready"
    /\ page = IndexPage
    /\ \E k \in 1..Len(grid) :
         /\ "blog" \in DOMAIN grid[k]
         /\ href' = <<"blog.html?id=", blogs[grid[k].blog].id>>
    /\ prev' = NoPrev
    /\ UNCHANGED <<storage, blogs, categories, page, search, pc, grid, container,
                   options, readers, alerts, creates, text, markup>>

\* The document is unloaded and the next one's script runs: to the URL given
\* to window.location.href if there is one, else wherever the user goes.
Navigate ==
    /\ pc = "ready"
    /\ \E target \in Pages, id \in TypedIds :
         /\ href # null =>
              /\ target = (IF href[1] = IndexPage THEN IndexPage ELSE BlogPage)
              /\ id = null
         /\ target # BlogPage => id = null
         /\ page' = target
         /\ search' = IF href # null /\ Len(href) = 2 THEN href[2] ELSE id
    /\ pc' = "start"
    /\ blogs' = <<>>
    /\ categories' = <<>>
    /\ grid' = <<>>
    /\ container' = [kind |-> "static"]
    /\ options' = <<>>
    /\ readers' = <<>>
    /\ href' = null
    /\ alerts' = <<>>
    /\ prev' = [some |-> TRUE, blogs |-> blogs, creates |-> creates]
    /\ creates' = <<>>
    /\ UNCHANGED <<storage, text, markup>>

Next ==
    \/ loadData
    \/ renderHomePage
    \/ initAddBlogPage
    \/ renderSingleBlogPage
    \/ Submit
    \/ ReaderOnload
    \/ CardClick
    \/ Navigate

Spec == Init /\ [][Next]_vars

(***************************************************************************)
(* formatContent on its own: every text of at most MaxTextLen characters.  *)
(***************************************************************************)
RECURSIVE SeqsUpTo(_, _)
SeqsUpTo(S, n) ==
    IF n = 0 THEN { <<>> }
    ELSE SeqsUpTo(S, n - 1) \cup
         { Append(t, c) : t \in SeqsUpTo(S, n - 1), c \in S }

InitFC == InitApp /\ text \in SeqsUpTo(Chars, MaxTextLen) /\ markup = <<>>

FormatContent ==
    /\ markup = <<>>
    /\ markup' = <<formatContent(text)>>
    /\ UNCHANGED <<storage, blogs, categories, page, search, pc, grid, container,
                   options, readers, href, alerts, creates, prev, text>>

NextFC == FormatContent

SpecFC == InitFC /\ [][NextFC]_vars

(***************************************************************************)
(* Properties.                                                             *)
(***************************************************************************)
Range(f) == { f[i] : i \in DOMAIN f }

IsDate(d) == DateValue(d) # NaN

\* date a is a valid date, date b is one, and a is before b
Earlier(a, b) == IsDate(a) /\ IsDate(b) /\ DateValue(a)[1] < DateValue(b)[1]

\* date a and date b are valid dates and a is b or after b
NotBefore(a, b) == IsDate(a) /\ IsDate(b) /\ DateValue(a)[1] >= DateValue(b)[1]

CardDate(k) == blogs[grid[k].blog].date

\* creates of the previous document whose write succeeded, of drafts with a
\* valid date
PersistedDrafts ==
    { c \in Range(prev.creates) : c.write = "ok" /\ IsDate(c.blog.date) }

\* the Listing page, loaded right after a document in which saveNewBlog
\* persisted a draft with a valid date
ListingAfterCreate ==
    /\ page = IndexPage
    /\ pc = "ready"
    /\ prev.some
    /\ PersistedDrafts # {}

\* the created posts are among the cards
CreatedAreListed ==
    \A c \in PersistedDrafts :
        \E k \in 1..Len(grid) :
            /\ grid[k].blog = c.idx
            /\ blogs[c.idx] = c.blog
            /\ grid[k].title = c.blog.title
            /\ grid[k].category = c.blog.category
            /\ grid[k].excerpt = c.blog.description

\* posts of equal date are in collection order
TiesInCollectionOrder ==
    \A k, l \in 1..Len(grid) :
        (k < l /\ CardDate(k) = CardDate(l)) => grid[k].blog < grid[l].blog

C2_NoRedirectOnFailure ==
    (page = AddBlogPage /\ creates # <<>>
        /\ \A i \in 1..Len(creates) : creates[i].write # "ok")
    => (alerts # <<>> /\ href = null)

\* every post appended by this document is in state.blogs at its position, and
\* saveNewBlog has run to its last statement (the redirect)
C3_StaysInMemory ==
    /\ \A i \in 1..Len(creates) :
          /\ creates[i].idx <= Len(blogs)
          /\ blogs[creates[i].idx] = creates[i].blog
    /\ creates # <<>> => href = <<IndexPage>>

\* a saveNewBlog whose write fails: the item is as before, the post is
\* appended, and the alert tells the quota case from the others
C3_FailedStep ==
    (Len(creates') = Len(creates) + 1 /\ creates'[Len(creates')].write # "ok")
    => /\ storage' = storage
       /\ blogs' = Append(blogs, creates'[Len(creates')].blog)
       /\ Len(alerts') = Len(alerts) + 1
       /\ alerts'[Len(alerts')] =
              IF creates'[Len(creates')].write = "QuotaExceededError"
              THEN "Storage limit exceeded! Image might be too large. Try a smaller image."
              ELSE "Error saving data. See console for details."
       /\ (creates'[Len(creates')].write = "QuotaExceededError")
              <=> (alerts'[Len(alerts')] # ErrorMessage)

\* C3: a create whose write fails is not rolled back and does not crash:
\* every post appended by this document stays in state.blogs at its position
\* for as long as the document lives, saveNewBlog runs to its last statement
\* (the redirect), and in the step of a failed create the persisted document
\* is unchanged and the alert is the quota message for QuotaExceededError and
\* the other, different message for any other error.
C3_QuotaFailureKept == []C3_StaysInMemory /\ [][C3_FailedStep]_vars

\* C3, reached: a quota failure, then a second create in the same document
\* that is not persisted either
C3_Witness ==
    /\ Len(creates) = 2
    /\ creates[1].write = "QuotaExceededError"
    /\ storage # null
    /\ Len(storage[1].blogs) < Len(blogs)

\* C4: every post has a non-empty id and no two posts share an id.
C4_UniqueIds ==
    /\ \A i \in 1..Len(blogs) : blogs[i].id # <<>>
    /\ \A i, j \in 1..Len(blogs) : i # j => blogs[i].id # blogs[j].id

\* the step taken when the script has run and there is no item
C5_SeedStep ==
    (pc = "start" /\ storage = null) =>
        /\ pc' = "loaded"
        /\ Len(blogs') = 2
        /\ blogs'[1].id = <<"1">>
        /\ blogs'[2].id # <<>>
        /\ blogs'[1].title = "The Future of Digital Democracy"
        /\ blogs'[2].title = "Policy Changes in 2024"
        /\ includes(categories', blogs'[1].category)
        /\ includes(categories', blogs'[2].category)
        /\ grid' = <<>> /\ container' = [kind |-> "static"] /\ options' = <<>>
        /\ IF alerts' = alerts
           THEN /\ storage' # null
                /\ parse(storage'[1]) = [blogs |-> blogs', categories |-> categories']
           ELSE storage' = null

\* C5: with no persisted document, loadData ends with the two example posts
\* (ids "1" and a non-empty second id) in state.blogs, their categories in
\* state.categories, and the snapshot written in that same step, before
\* anything is rendered; a failed write (it raises an alert) leaves the
\* document absent and the seeded state in place.
C5_SeedsWhenAbsent == [][C5_SeedStep]_vars

\* C5, reached: the seeding write failed and loadData completed
C5_Witness ==
    /\ pc = "loaded"
    /\ storage = null
    /\ alerts # <<>>
    /\ Len(blogs) = 2

\* the categories of the posts that are no default category, each once, in
\* the order of the first post that has it
RECURSIVE NovelInOrder(_)
NovelInOrder(arr) ==
    IF arr = <<>> THEN <<>>
    ELSE LET before == NovelInOrder(SubSeq(arr, 1, Len(arr) - 1))
             c == arr[Len(arr)].category
         IN  IF c \in Range(DEFAULT_CATEGORIES) \/ c \in Range(before)
             THEN before
             ELSE Append(before, c)

\* state.categories once loadData has run
C6_Categories ==
    pc # "start" =>
        /\ \A i, j \in 1..Len(categories) : i # j => categories[i] # categories[j]
        /\ categories = <<Politics, Policy, Election, Opinion>> \o NovelInOrder(blogs)
        /\ \A i \in 1..Len(blogs) : includes(categories, blogs[i].category)

\* a saveNewBlog with a category of the set leaves the set as it is
C6_KnownCategoryStep ==
    (Len(creates') = Len(creates) + 1
        /\ includes(categories, creates'[Len(creates')].blog.category))
    => categories' = categories

\* C6: once loadData has run, state.categories holds no string twice, is the
\* default categories in their order followed by the other categories of the
\* posts in the order of their first post, and holds every post's category;
\* a create with a category of the set leaves the set unchanged.
C6_CategoriesOrdered == []C6_Categories /\ [][C6_KnownCategoryStep]_vars

\* C6, reached: two new categories, in the order of their creates
C6_Witness ==
    /\ Len(categories) = 6
    /\ categories[6] = <<"T">>
    /\ blogs[3].category = categories[5]
    /\ blogs[4].category = categories[6]

\* C7: on the Detail page an id of no post renders the not-found state, and
\* the id of a created post renders that post, with the fields given to its
\* create.
C7_DetailLookup ==
    (page = BlogPage /\ pc = "ready" /\ search # null) =>
        /\ (\A i \in 1..Len(blogs) : blogs[i].id # search)
              => container.kind = "notfound"
        /\ \A i \in (Len(SEED_DATA) + 1)..Len(blogs) :
              blogs[i].id = search
              => container = [kind |-> "article", article |-> Article(blogs[i])]

PersistedBlogs == IF storage = null THEN <<>> ELSE parse(storage[1]).blogs

IsPrefix(s, t) == Len(s) <= Len(t) /\ SubSeq(t, 1, Len(s)) = s

\* within a document: state.blogs is unchanged or one post longer, and
\* longer only by a saveNewBlog
C8_DocumentStep ==
    (pc # "start" /\ pc' # "start") =>
        \/ blogs' = blogs
        \/ /\ Len(creates') = Len(creates) + 1
           /\ blogs' = Append(blogs, creates'[Len(creates')].blog)

\* the persisted collection is unchanged or extended at its end
C8_PersistedStep == IsPrefix(PersistedBlogs, PersistedBlogs')

\* a page load gives the document the collection the previous one had
C8_LoadKeepsCollection ==
    (pc = "loaded" /\ prev.some) => blogs = prev.blogs

\* C8 as stated: the collection is append-only across page loads, renders
\* and creates: a step within a document leaves state.blogs unchanged or one
\* post longer, a page load removes no post from the collection the previous
\* document had, and the persisted collection only grows at its end.
C8_AppendOnlyAcrossLoads ==
    [][C8_DocumentStep /\ C8_PersistedStep]_vars /\ []C8_LoadKeepsCollection

\* a page load takes the persisted collection, or the seed posts
C8_LoadTakesPersisted ==
    pc = "loaded" =>
        /\ PersistedBlogs # <<>> => blogs = PersistedBlogs
        /\ PersistedBlogs = <<>> => blogs = SEED_DATA
        /\ prev.some => IsPrefix(blogs, prev.blogs)

\* C8, amended: a step within a document leaves state.blogs unchanged or one
\* post longer (by saveNewBlog only, rendering changes nothing); a page load
\* sets state.blogs to the persisted collection, or to the seed posts when
\* there is none, which is a beginning of the collection the previous
\* document had; the persisted collection only grows at its end.
C8_AppendOnlyWithinDocument ==
    [][C8_DocumentStep /\ C8_PersistedStep]_vars /\ []C8_LoadTakesPersisted

\* C8, reached: a page load that lost a post (the previous document had
\* appended it and its write had failed) and kept one created before
C8_Witness ==
    /\ pc = "loaded"
    /\ prev.some
    /\ Len(prev.blogs) > Len(blogs)
    /\ Len(blogs) > 2

\* C9: a document of the Create page creates at most one post, and the
\* redirect is issued within the submit event.
C9_OneCreatePerLoad ==
    page = AddBlogPage =>
        /\ Len(creates) <= 1
        /\ \A i \in 1..Len(creates) : creates[i].by = "submit"

\* the number of paragraph elements in a markup
RECURSIVE Paragraphs(_)
Paragraphs(m) ==
    IF m = <<>> THEN 0
    ELSE (IF Head(m) = "<p>" THEN 1 ELSE 0) + Paragraphs(Tail(m))

\* the text is non-empty lines joined by single newlines
NonEmptyLines(t) ==
    /\ t # <<>>
    /\ t[1] # "\n"
    /\ t[Len(t)] # "\n"
    /\ \A i \in 1..(Len(t) - 1) : ~(t[i] = "\n" /\ t[i + 1] = "\n")

Newlines(t) == Cardinality({ i \in 1..Len(t) : t[i] = "\n" })

\* C10: formatContent gives one paragraph per line for n non-empty lines
\* joined by single newlines, and no paragraph for the empty text.
C10_ParagraphPerLine ==
    markup # <<>> =>
        /\ NonEmptyLines(text) => Paragraphs(markup[1]) = Newlines(text) + 1
        /\ text = <<>> => Paragraphs(markup[1]) = 0

====
